---- MODULE Spec2Model ----
(***************************************************************************)
(* Model of the PACING session orchestrator (pacing/platform.py,           *)
(* BasicSessionStream) with its pipeline loop and agent fan-out, the mock  *)
(* audio source it is driven by, and the session field of the reference    *)
(* agent; and of the reference agent itself (UncertaintyAuditor) with its  *)
(* review queue.  asyncio runs one coroutine at a time, so every action    *)
(* below is the code between two suspension points (await / async for).    *)
(***************************************************************************)
EXTENDS Integers, Sequences, FiniteSets, TLC

\* ---------------------------------------------------------------- bounds
\* Spec: number of sessions a behaviour may start (accepted start() calls),
\* and number of audio chunks the audio source yields in all.
MaxStarts == 1
MaxChunks == 2
\* SpecRestart: the same two bounds for the behaviours that stop a session
\* and start the next one while the earlier pipeline loop is still suspended.
RestartStarts == 2
RestartChunks == 3
\* SpecFlagging: number of events handed to the auditor.
MaxFlagEvents == 2
\* SpecAuditor: number of review items created in all, and number of events
\* the auditor processes within one session.
MaxItems == 2
MaxProcessed == 2
MaxReviewItems == 3
MaxSnapshotItems == 2
MaxSnapshotLen == 3
MaxLimitEvents == 4
MaxConstructEvents == 2
\* SpecSimulation: number of results in the simulation history, and number
\* of mutations in one simulate_multiple_mutations call.
MaxSimulations == 1
MaxMutations == 2

\* ------------------------------------------------------------- universes
Agents == {"a1", "a2"}
\* The one MockAudioProvider object the caller hands to every start().
AudioSource == "audio"
NoProvider == "none"
Sessions == 1..(IF MaxStarts > RestartStarts THEN MaxStarts ELSE RestartStarts)
NoSession == 0

DEV_MODE == "dev"
PROD_MODE == "prod"
OperatingMode == {DEV_MODE, PROD_MODE}

VARIABLES
    operating_mode,        \* BasicSessionStream.operating_mode
    agents,                \* BasicSessionStream._agents (a list)
    is_active,             \* BasicSessionStream._is_active
    current_session,       \* session_id of _current_session, NoSession for None
    audio_provider,        \* _audio_provider, NoProvider for None
    transcriber,           \* TRUE when _transcriber is set
    transcription_buffer,  \* _transcription_buffer
    streaming,             \* MockAudioProvider._is_streaming
    loops,                 \* one record per accepted start(): its pipeline coroutine
    nstarts,               \* number of accepted start() calls so far
    nchunks,               \* number of audio chunks yielded so far
    start_rejected,        \* the most recent start() call raised the session-state fault
    agent_session,         \* UncertaintyAuditor.current_session_id of each agent
    session_log,           \* history: events transcribed while Active since the last start
    agent_ended,           \* history: the session of the latest on_session_end of each agent
    confidence_threshold,  \* UncertaintyAuditor.confidence_threshold, in hundredths
    auto_flag_medical_terms,          \* UncertaintyAuditor.auto_flag_medical_terms
    review_queue,          \* UncertaintyAuditor.review_queue
    total_transcriptions_processed,   \* UncertaintyAuditor.total_transcriptions_processed
    total_flagged,         \* UncertaintyAuditor.total_flagged
    current_session_id,    \* UncertaintyAuditor.current_session_id
    nitems,                \* number of ReviewQueueItems created so far (uuid4 source)
    last_event,            \* history: the event of the latest on_transcription_update
    max_queue_size,        \* UncertaintyAuditor.max_queue_size
    size_warning,          \* the latest on_transcription_update printed the size warning
    construction,          \* the constructor call: its threshold argument, and whether it raised
    snapshot,              \* the list a getter returned last: references to item objects
    last_call,             \* history: the reviewer's latest call and what it returned
    base_risk,             \* MockBayesianModel.base_risk, in hundredths
    baseline_graph,        \* SimulationContext.baseline_graph: the content of that object
    modified_graph,        \* what the latest Mutation.apply calls were given and returned
    risk_result,           \* the outcome of the latest calculate_risk / calculate_risk_delta
    simulation_history     \* SimulationContext.simulation_history

\* The fields of the one UncertaintyAuditor object.
auditor_vars == <<confidence_threshold, auto_flag_medical_terms, review_queue,
                  total_transcriptions_processed, total_flagged,
                  current_session_id, nitems, last_event, max_queue_size,
                  size_warning, construction, snapshot, last_call>>

\* The risk model and the simulation context.
simulation_vars == <<base_risk, baseline_graph, modified_graph, risk_result,
                     simulation_history>>

\* The fields of the orchestrator, its loops and its audio source.
stream_vars == <<operating_mode, agents, is_active, current_session, audio_provider,
                 transcriber, transcription_buffer, streaming, loops, nstarts,
                 nchunks, start_rejected, agent_session, session_log, agent_ended>>

vars == <<operating_mode, agents, is_active, current_session, audio_provider,
          transcriber, transcription_buffer, streaming, loops, nstarts,
          nchunks, start_rejected, agent_session, session_log, agent_ended,
          auditor_vars, simulation_vars>>

\* ------------------------------------------------------------- helpers
Range(s) == {s[i] : i \in 1..Len(s)}

RECURSIVE Remove(_, _)
\* list.remove(x): drops the first occurrence of x
Remove(s, x) ==
    IF s = <<>> THEN <<>>
    ELSE IF Head(s) = x THEN Tail(s)
    ELSE <<Head(s)>> \o Remove(Tail(s), x)


\* The record of a start() call that has not been made yet.
NoLoop == [pc |-> "none", chunk |-> 0, pending |-> {},
           faulted |-> FALSE, ctx |-> NoSession]

\* What is left of a coroutine that has ended with outcome pc.
Ended(pc) == [NoLoop EXCEPT !.pc = pc]

\* The coroutine of start() call l is suspended inside the pipeline loop.
Running(l) == loops[l].pc \in {"acquire", "transcribe", "join"}

\* start() call l has returned to its caller: its await of
\* _process_audio_stream is over.
StartReturned(l) == loops[l].pc = "done"

\* start() call l has raised to its caller the fault that left the loop.
StartRaised(l) == loops[l].pc = "fault"

\* The TranscriptionResult produced by loop l from audio chunk number n.
Event(l, n) == [chunk |-> n, loop |-> l]

\* The confidence threshold of an auditor constructed without arguments,
\* in hundredths.
DefaultThreshold == 70

NoNotes == "None"

\* The event history before the first event.
NoEvent == [text |-> <<>>, confidence_score |-> 0]

\* The queue-size limit of an auditor constructed without arguments.
DefaultMaxQueueSize == 100

\* No getter has been called yet, and no reviewer call made.
NoSnapshot == <<>>

NoCall ==
    [op |-> "none", item_id |-> 0, reviewer_notes |-> NoNotes, found |-> FALSE,
     removed |-> 0, again |-> FALSE]

\* UncertaintyAuditor.__init__ past its validation, with the given arguments.
AuditorInitWith(threshold, max_size, auto_flag) ==
    /\ confidence_threshold = threshold
    /\ max_queue_size = max_size
    /\ auto_flag_medical_terms = auto_flag
    /\ construction = [threshold |-> threshold, fault |-> FALSE, done |-> TRUE]
    /\ size_warning = FALSE
    /\ snapshot = NoSnapshot
    /\ last_call = NoCall
    /\ review_queue = <<>>
    /\ total_transcriptions_processed = 0
    /\ total_flagged = 0
    /\ current_session_id = NoSession
    /\ nitems = 0
    /\ last_event = NoEvent

\* A validation that accepts every threshold.
ValidThresholdAlways(threshold) == TRUE

\* The constructor's validation: 0.0 <= confidence_threshold <= 1.0.
ValidThreshold(threshold) == 0 <= threshold /\ threshold <= 100

\* What stands for an attribute that was never assigned.
Unassigned == "unassigned"

\* No attribute of an auditor is assigned, and nothing was done with one.
NoAttributes ==
    /\ confidence_threshold = Unassigned
    /\ max_queue_size = Unassigned
    /\ auto_flag_medical_terms = Unassigned
    /\ review_queue = Unassigned
    /\ total_transcriptions_processed = Unassigned
    /\ total_flagged = Unassigned
    /\ current_session_id = Unassigned
    /\ nitems = 0
    /\ last_event = NoEvent
    /\ size_warning = FALSE
    /\ snapshot = NoSnapshot
    /\ last_call = NoCall

\* The constructor has not been called.
NotConstructed == [threshold |-> 0, fault |-> FALSE, done |-> FALSE]

NoAuditor == construction = NotConstructed /\ NoAttributes

\* UncertaintyAuditor(confidence_threshold, max_queue_size,
\* auto_flag_medical_terms), called once: a rejected threshold raises
\* ValueError before any attribute is assigned, and the caller gets no auditor.
construct(threshold, max_size, auto_flag) ==
    /\ construction = NotConstructed
    /\ IF ValidThreshold(threshold)
       THEN /\ construction' = [threshold |-> threshold, fault |-> FALSE, done |-> TRUE]
            /\ confidence_threshold' = threshold
            /\ max_queue_size' = max_size
            /\ auto_flag_medical_terms' = auto_flag
            /\ review_queue' = <<>>
            /\ total_transcriptions_processed' = 0
            /\ total_flagged' = 0
            /\ current_session_id' = NoSession
       ELSE /\ construction' = [threshold |-> threshold, fault |-> TRUE, done |-> TRUE]
            /\ UNCHANGED <<confidence_threshold, max_queue_size,
                           auto_flag_medical_terms, review_queue,
                           total_transcriptions_processed, total_flagged,
                           current_session_id>>
    /\ UNCHANGED <<nitems, last_event, size_warning, snapshot, last_call, stream_vars, simulation_vars>>

\* UncertaintyAuditor.__init__ with an accepted threshold and the default
\* queue-size limit.
AuditorInit(threshold, auto_flag) ==
    AuditorInitWith(threshold, DefaultMaxQueueSize, auto_flag)

\* ------------------------------------------------- graphs and risk model
\* Dates are whole days before now (negative: after now), scores hundredths.
\* An Optional field that is None.
NoScore == 999

NoDate == 99999

NoValue == "None"

\* PatientGraph(patient_id="p1")
EmptyGraph ==
    [patient_id |-> "p1", events |-> <<>>, substance_use_records |-> <<>>,
     interventions |-> <<>>,
     metadata |-> [simulated_housing_status |-> NoValue,
                   simulated_employment_status |-> NoValue]]

\* The base risk of a model constructed without arguments.
DefaultBaseRisk == 50

\* No Mutation.apply call, and no risk calculation, has been made.
NoModified == [mutations |-> <<>>, same_object |-> FALSE, graph |-> EmptyGraph]

NoResult ==
    [op |-> "none", fault |-> FALSE, risk_score |-> 0, baseline_risk |-> 0,
     delta |-> 0, risk_factors |-> <<>>]

\* MockSimulationModel(base_risk) and SimulationContext(baseline_graph, model)
SimulationInit(risk, graph) ==
    /\ base_risk = risk
    /\ baseline_graph = graph
    /\ modified_graph = NoModified
    /\ risk_result = NoResult
    /\ simulation_history = <<>>

\* A default model and a context on the empty graph, nothing simulated.
SimulationIdle == SimulationInit(DefaultBaseRisk, EmptyGraph)

\* ---------------------------------------------------------------- Init
\* BasicSessionStream.__init__, but for the mode, and the audio source and
\* the agents before their first session.
StreamInit ==
    /\ agents = <<>>
    /\ is_active = FALSE
    /\ current_session = NoSession
    /\ audio_provider = NoProvider
    /\ transcriber = FALSE
    /\ transcription_buffer = <<>>
    /\ streaming = FALSE
    /\ loops = [l \in Sessions |-> NoLoop]
    /\ nstarts = 0
    /\ nchunks = 0
    /\ start_rejected = FALSE
    /\ agent_session = [a \in Agents |-> NoSession]
    /\ session_log = <<>>
    /\ agent_ended = [a \in Agents |-> NoSession]

Init ==
    /\ operating_mode \in OperatingMode
    /\ StreamInit
    /\ SimulationIdle
    /\ AuditorInit(DefaultThreshold, TRUE)

\* ------------------------------------------------- register / unregister
\* A broadcast that reads the agent list while its handlers run: an agent
\* registered during a fan-out is handed the event of that fan-out too.
register_agentLive(a) ==
    /\ agents' = IF a \notin Range(agents) THEN Append(agents, a) ELSE agents
    /\ loops' = [l \in Sessions |->
                   IF loops[l].pc = "join"
                   THEN [loops[l] EXCEPT !.pending = @ \cup {a}]
                   ELSE loops[l]]
    /\ UNCHANGED <<operating_mode, is_active, current_session, audio_provider,
                   transcriber, transcription_buffer, streaming, nstarts,
                   nchunks, start_rejected, agent_session, session_log,
                   auditor_vars, agent_ended, simulation_vars>>

\* A register_agent without its membership test.
register_agentAlways(a) ==
    /\ agents' = Append(agents, a)
    /\ UNCHANGED <<operating_mode, is_active, current_session, audio_provider,
                   transcriber, transcription_buffer, streaming, loops, nstarts,
                   nchunks, start_rejected, agent_session, session_log,
                   auditor_vars, agent_ended, simulation_vars>>

\* register_agent: appended unless it is in the list already.
register_agent(a) ==
    /\ agents' = IF a \notin Range(agents) THEN Append(agents, a) ELSE agents
    /\ UNCHANGED <<operating_mode, is_active, current_session, audio_provider,
                   transcriber, transcription_buffer, streaming, loops, nstarts,
                   nchunks, start_rejected, agent_session, session_log,
                   auditor_vars, agent_ended, simulation_vars>>

unregister_agent(a) ==
    /\ agents' = IF a \in Range(agents) THEN Remove(agents, a) ELSE agents
    /\ UNCHANGED <<operating_mode, is_active, current_session, audio_provider,
                   transcriber, transcription_buffer, streaming, loops, nstarts,
                   nchunks, start_rejected, agent_session, session_log,
                   auditor_vars, agent_ended, simulation_vars>>

\* ------------------------------------------------------------ start()
\* A start_session without its guard.
StartRejectedNever == FALSE

\* The guard of start_session: a session is already active.
StartRejected == is_active

\* A start_session that tells no agent.
NotifiedOnStartNone(a) == FALSE

\* start_session calls on_session_start of every agent in the list.
NotifiedOnStart(a) == a \in Range(agents)

\* start_session up to its first suspension point.  Rejected: RuntimeError
\* to the caller, nothing assigned.  Accepted: the call is session number
\* nstarts + 1 (its SessionMetadata.session_id); the fields are set, every
\* agent gets on_session_start, the audio source is started and
\* _process_audio_stream runs to its first await: the mock generator yields
\* its first chunk without suspending, the Active flag is set, so the
\* coroutine suspends in transcribe_chunk.
start_session ==
    IF StartRejected
    THEN /\ start_rejected' = TRUE
         /\ UNCHANGED <<operating_mode, agents, is_active, current_session,
                        audio_provider, transcriber, transcription_buffer,
                        streaming, loops, nstarts, nchunks, agent_session,
                        session_log,
                   auditor_vars, agent_ended, simulation_vars>>
    ELSE /\ nstarts' = nstarts + 1
         /\ nchunks' = nchunks + 1
         /\ start_rejected' = FALSE
         /\ current_session' = nstarts + 1
         /\ audio_provider' = AudioSource
         /\ transcriber' = TRUE
         /\ is_active' = TRUE
         /\ transcription_buffer' = <<>>
         /\ agent_session' = [a \in Agents |->
                                IF NotifiedOnStart(a) THEN nstarts + 1
                                ELSE agent_session[a]]
         /\ streaming' = TRUE
         /\ loops' = [loops EXCEPT ![nstarts + 1] =
                         [NoLoop EXCEPT !.pc = "transcribe", !.chunk = nchunks + 1]]
         /\ session_log' = <<>>
         /\ UNCHANGED <<operating_mode, agents,
                   auditor_vars, agent_ended, simulation_vars>>

\* The agents ahead of position k in the list: those a notification loop
\* has called when the call of the agent at position k raises.
NotifiedBefore(k) == {agents[i] : i \in 1..(k - 1)}

\* start_session accepted, and then raising before it reaches the pipeline
\* loop: on_session_start of the agent at position k raises, or, for k one
\* past the list, start_stream of the audio source does.  Nothing catches
\* the fault: the assignments made so far stay, the flag included.
start_sessionFault(k) ==
    /\ ~StartRejected
    /\ k \in 1..(Len(agents) + 1)
    /\ nstarts' = nstarts + 1
    /\ start_rejected' = FALSE
    /\ current_session' = nstarts + 1
    /\ audio_provider' = AudioSource
    /\ transcriber' = TRUE
    /\ is_active' = TRUE
    /\ transcription_buffer' = <<>>
    /\ agent_session' = [a \in Agents |->
                           IF a \in NotifiedBefore(k) THEN nstarts + 1
                           ELSE agent_session[a]]
    /\ loops' = [loops EXCEPT ![nstarts + 1] = Ended("start_fault")]
    /\ session_log' = <<>>
    /\ UNCHANGED <<operating_mode, agents, streaming, nchunks,
                   auditor_vars, agent_ended, simulation_vars>>

\* ------------------------------------------------------------- stop()
\* A teardown that erases the buffer in either mode.
ClearOnStopAlways == TRUE

\* The teardown step of stop_session erases the buffer.
ClearOnStop == operating_mode = PROD_MODE

\* A stop_session without its first guard and without the guard of its
\* notification: it tears down and notifies whatever the state.
stop_sessionUnguarded ==
    /\ is_active' = FALSE
    /\ streaming' = IF audio_provider # NoProvider THEN FALSE ELSE streaming
    /\ agent_session' = [a \in Agents |->
                            IF a \in Range(agents) THEN NoSession
                            ELSE agent_session[a]]
    /\ transcription_buffer' = IF ClearOnStop THEN <<>> ELSE transcription_buffer
    /\ current_session' = NoSession
    /\ audio_provider' = NoProvider
    /\ transcriber' = FALSE
    /\ UNCHANGED <<operating_mode, agents, loops, nstarts, nchunks,
                   start_rejected, session_log,
                   auditor_vars, simulation_vars>>

\* A stop_session that tells no agent.
NotifyOnStopNever == FALSE

\* stop_session notifies the agents when there is a session to name.
NotifyOnStop == current_session # NoSession

\* stop_session has no await in it: it runs as one step.  The history
\* agent_ended is written where a specification keeps it.
stop_session ==
    IF ~is_active
    THEN UNCHANGED vars
    ELSE /\ is_active' = FALSE
         /\ streaming' = IF audio_provider # NoProvider THEN FALSE ELSE streaming
         /\ agent_session' = IF NotifyOnStop
                             THEN [a \in Agents |->
                                     IF a \in Range(agents) THEN NoSession
                                     ELSE agent_session[a]]
                             ELSE agent_session
         /\ transcription_buffer' = IF ClearOnStop THEN <<>> ELSE transcription_buffer
         /\ current_session' = NoSession
         /\ audio_provider' = NoProvider
         /\ transcriber' = FALSE
         /\ UNCHANGED <<operating_mode, agents, loops, nstarts, nchunks,
                        start_rejected, session_log,
                   auditor_vars, simulation_vars>>

\* stop_session in which on_session_end of the agent at position k raises:
\* nothing catches the fault, so the call ends there, after the flag and the
\* audio source and before the buffer and the references.
stop_sessionFault(k) ==
    /\ is_active
    /\ NotifyOnStop
    /\ k \in 1..Len(agents)
    /\ is_active' = FALSE
    /\ streaming' = IF audio_provider # NoProvider THEN FALSE ELSE streaming
    /\ agent_session' = [a \in Agents |->
                           IF a \in NotifiedBefore(k) THEN NoSession
                           ELSE agent_session[a]]
    /\ UNCHANGED <<operating_mode, agents, current_session, audio_provider,
                   transcriber, transcription_buffer, loops, nstarts, nchunks,
                   start_rejected, session_log,
                   auditor_vars, simulation_vars>>

\* The agents that a stop_session call made now tells the session has ended.
ToldOnStop == IF is_active /\ NotifyOnStop THEN Range(agents) ELSE {}

\* get_transcription_stream: what the transcript reader yields.
get_transcription_stream == transcription_buffer

\* ------------------------------------------------------ pipeline loop
\* A loop that ends the session when its audio source is exhausted.
AcquireStops(l, elapsed) ==
    /\ loops[l].pc = "acquire"
    /\   IF streaming /\ ~elapsed
         THEN /\ nchunks' = nchunks + 1
              /\ is_active' = is_active
              /\ loops' = [loops EXCEPT ![l] =
                             IF is_active
                             THEN [@ EXCEPT !.chunk = nchunks + 1, !.pc = "transcribe"]
                             ELSE Ended("done")]
         ELSE /\ nchunks' = nchunks
              /\ is_active' = FALSE
              /\ loops' = [loops EXCEPT ![l] = Ended("done")]
    /\ UNCHANGED <<operating_mode, agents, current_session, audio_provider,
                   transcriber, transcription_buffer, streaming, nstarts,
                   start_rejected, agent_session, session_log,
                   auditor_vars, agent_ended, simulation_vars>>

\* The loop resumes in the audio generator after its sleep: the generator
\* yields another chunk while its provider is streaming and its duration has
\* not elapsed, else it ends; a yielded chunk is dropped and the loop left
\* when the Active flag is down.
Acquire(l, elapsed) ==
    /\ loops[l].pc = "acquire"
    /\   IF streaming /\ ~elapsed
         THEN /\ nchunks' = nchunks + 1
              /\ loops' = [loops EXCEPT ![l] =
                             IF is_active
                             THEN [@ EXCEPT !.chunk = nchunks + 1, !.pc = "transcribe"]
                             ELSE Ended("done")]
         ELSE /\ nchunks' = nchunks
              /\ loops' = [loops EXCEPT ![l] = Ended("done")]
    /\ UNCHANGED <<operating_mode, agents, is_active, current_session, audio_provider,
                   transcriber, transcription_buffer, streaming, nstarts,
                   start_rejected, agent_session, session_log,
                   auditor_vars, agent_ended, simulation_vars>>

\* A loop that stores every event, and one that stores none.
ShouldBufferAlways == TRUE

ShouldBufferNever == FALSE

\* The loop stores the event it got from the transcriber.
ShouldBuffer == operating_mode = DEV_MODE

\* transcribe_chunk returns: the event is stored per mode and broadcast to
\* the agents registered now; the coroutine suspends in gather, or goes
\* straight back to the generator when no agent is registered.
Transcribe(l) ==
    /\ loops[l].pc = "transcribe"
    /\ transcription_buffer' = IF ShouldBuffer
                               THEN Append(transcription_buffer, Event(l, loops[l].chunk))
                               ELSE transcription_buffer
    /\ session_log' = IF is_active THEN Append(session_log, Event(l, loops[l].chunk))
                      ELSE session_log
    /\ loops' = [loops EXCEPT ![l] =
                   IF agents = <<>>
                   THEN [@ EXCEPT !.pc = "acquire", !.chunk = 0, !.faulted = FALSE]
                   ELSE [@ EXCEPT !.pc = "join", !.chunk = 0, !.faulted = FALSE,
                                  !.ctx = current_session, !.pending = Range(agents)]]
    /\ UNCHANGED <<operating_mode, agents, is_active, current_session, audio_provider,
                   transcriber, streaming, nstarts, nchunks, start_rejected, agent_session,
                   auditor_vars, agent_ended, simulation_vars>>

\* transcribe_chunk raises: nothing catches it, so it leaves the loop and
\* start_session and reaches the caller of start().
TranscribeFault(l) ==
    /\ loops[l].pc = "transcribe"
    /\ loops' = [loops EXCEPT ![l] = Ended("fault")]
    /\ UNCHANGED <<operating_mode, agents, is_active, current_session, audio_provider,
                   transcriber, transcription_buffer, streaming, nstarts,
                   nchunks, start_rejected, agent_session, session_log,
                   auditor_vars, agent_ended, simulation_vars>>

\* The audio generator raises while the loop awaits its next chunk: nothing
\* catches it, so it leaves the loop and start_session and reaches the caller
\* of start(); no field of the orchestrator is assigned on the way.
AudioFault(l) ==
    /\ loops[l].pc = "acquire"
    /\ loops' = [loops EXCEPT ![l] = Ended("fault")]
    /\ UNCHANGED <<operating_mode, agents, is_active, current_session, audio_provider,
                   transcriber, transcription_buffer, streaming, nstarts,
                   nchunks, start_rejected, agent_session, session_log,
                   auditor_vars, agent_ended, simulation_vars>>

\* ------------------------------------------------------------ fan-out
\* An agent's on_transcription_update returns.
HandlerReturns(l, a) ==
    /\ a \in loops[l].pending
    /\ loops' = [loops EXCEPT ![l].pending = @ \ {a}]
    /\ UNCHANGED <<operating_mode, agents, is_active, current_session, audio_provider,
                   transcriber, transcription_buffer, streaming, nstarts,
                   nchunks, start_rejected, agent_session, session_log,
                   auditor_vars, agent_ended, simulation_vars>>

\* gather without return_exceptions: the first fault leaves the gather, the
\* loop and start_session while the sibling handlers are still pending.
HandlerFaultsPropagate(l, a) ==
    /\ a \in loops[l].pending
    /\ loops' = [loops EXCEPT ![l].pending = @ \ {a}, ![l].faulted = TRUE,
                              ![l].pc = "fault"]
    /\ UNCHANGED <<operating_mode, agents, is_active, current_session, audio_provider,
                   transcriber, transcription_buffer, streaming, nstarts,
                   nchunks, start_rejected, agent_session, session_log,
                   auditor_vars, agent_ended, simulation_vars>>

\* An agent's on_transcription_update raises: gather(return_exceptions=True)
\* keeps the exception as that task's result.
HandlerFaults(l, a) ==
    /\ a \in loops[l].pending
    /\ loops' = [loops EXCEPT ![l].pending = @ \ {a}, ![l].faulted = TRUE]
    /\ UNCHANGED <<operating_mode, agents, is_active, current_session, audio_provider,
                   transcriber, transcription_buffer, streaming, nstarts,
                   nchunks, start_rejected, agent_session, session_log,
                   auditor_vars, agent_ended, simulation_vars>>

\* A fan-out that is dispatched and not awaited.
JoinedAtOnce(l) == TRUE

\* gather is done when every task of the fan-out has a result.
Joined(l) == loops[l].pending = {}

\* The await of gather returns, its list of results (the one place that holds
\* the handlers' outcomes) is dropped, and the loop goes back to the audio
\* generator.
Join(l) ==
    /\ loops[l].pc = "join"
    /\ Joined(l)
    /\ loops' = [loops EXCEPT ![l].pc = "acquire", ![l].ctx = NoSession,
                              ![l].faulted = FALSE]
    /\ UNCHANGED <<operating_mode, agents, is_active, current_session, audio_provider,
                   transcriber, transcription_buffer, streaming, nstarts,
                   nchunks, start_rejected, agent_session, session_log,
                   auditor_vars, agent_ended, simulation_vars>>

\* ----------------------------------------------------------------- Next
\* The environment of the orchestrator within the bounds: at most maxStarts
\* accepted start() calls, and an audio source whose duration has elapsed
\* once it has yielded maxChunks chunks.
CanStart(maxStarts, maxChunks) ==
    is_active \/ (nstarts < maxStarts /\ nchunks < maxChunks)

Next ==
    \/ \E a \in Agents : register_agent(a)
    \/ \E a \in Agents : unregister_agent(a)
    \/ CanStart(MaxStarts, MaxChunks) /\ start_session
    \/ stop_session /\ UNCHANGED agent_ended
    \/ \E l \in Sessions, elapsed \in BOOLEAN :
          (elapsed \/ nchunks < MaxChunks) /\ Acquire(l, elapsed)
    \/ \E l \in Sessions : Transcribe(l)
    \/ \E l \in Sessions : TranscribeFault(l)
    \/ \E l \in Sessions : AudioFault(l)
    \/ \E l \in Sessions, a \in Agents : HandlerReturns(l, a)
    \/ \E l \in Sessions, a \in Agents : HandlerFaults(l, a)
    \/ \E l \in Sessions : Join(l)

Spec == Init /\ [][Next]_vars

NextRestart ==
    \/ \E a \in Agents : register_agent(a)
    \/ \E a \in Agents : unregister_agent(a)
    \/ CanStart(RestartStarts, RestartChunks) /\ start_session
    \/ stop_session /\ UNCHANGED agent_ended
    \/ \E l \in Sessions, elapsed \in BOOLEAN :
          (elapsed \/ nchunks < RestartChunks) /\ Acquire(l, elapsed)
    \/ \E l \in Sessions : Transcribe(l)
    \/ \E l \in Sessions : TranscribeFault(l)
    \/ \E l \in Sessions : AudioFault(l)
    \/ \E l \in Sessions, a \in Agents : HandlerReturns(l, a)
    \/ \E l \in Sessions, a \in Agents : HandlerFaults(l, a)
    \/ \E l \in Sessions : Join(l)

SpecRestart == Init /\ [][NextRestart]_vars

\* SpecEnded: the behaviours of Spec, with the session of the latest
\* on_session_end of each agent kept in agent_ended.
NextEnded ==
    \/ \E a \in Agents : register_agent(a)
    \/ \E a \in Agents : unregister_agent(a)
    \/ CanStart(MaxStarts, MaxChunks) /\ start_session
    \/ /\ stop_session
       /\ agent_ended' = [a \in Agents |->
                            IF a \in ToldOnStop THEN current_session
                            ELSE agent_ended[a]]
    \/ \E l \in Sessions, elapsed \in BOOLEAN :
          (elapsed \/ nchunks < MaxChunks) /\ Acquire(l, elapsed)
    \/ \E l \in Sessions : Transcribe(l)
    \/ \E l \in Sessions : TranscribeFault(l)
    \/ \E l \in Sessions : AudioFault(l)
    \/ \E l \in Sessions, a \in Agents : HandlerReturns(l, a)
    \/ \E l \in Sessions, a \in Agents : HandlerFaults(l, a)
    \/ \E l \in Sessions : Join(l)

SpecEnded == Init /\ [][NextEnded]_vars

\* SpecFaults: the behaviours of Spec, and those in which an agent's
\* on_session_start or on_session_end, or the audio source's start_stream,
\* raises.
NextFaults ==
    \/ \E a \in Agents : register_agent(a)
    \/ \E a \in Agents : unregister_agent(a)
    \/ CanStart(MaxStarts, MaxChunks) /\ start_session
    \/ \E k \in 1..(Len(agents) + 1) :
          nstarts < MaxStarts /\ start_sessionFault(k)
    \/ stop_session /\ UNCHANGED agent_ended
    \/ \E k \in 1..Len(agents) : stop_sessionFault(k) /\ UNCHANGED agent_ended
    \/ \E l \in Sessions, elapsed \in BOOLEAN :
          (elapsed \/ nchunks < MaxChunks) /\ Acquire(l, elapsed)
    \/ \E l \in Sessions : Transcribe(l)
    \/ \E l \in Sessions : TranscribeFault(l)
    \/ \E l \in Sessions : AudioFault(l)
    \/ \E l \in Sessions, a \in Agents : HandlerReturns(l, a)
    \/ \E l \in Sessions, a \in Agents : HandlerFaults(l, a)
    \/ \E l \in Sessions : Join(l)

SpecFaults == Init /\ [][NextFaults]_vars

\* ============================================ Mutation, SimulationContext
\* Graph objects live in a heap, a sequence of graph contents; a reference
\* is a position in it.
\* copy.deepcopy(graph): a new object with the same content.
deepcopy(heap, ref) == [heap |-> Append(heap, heap[ref]), ref |-> Len(heap) + 1]

\* setattr(obj, key, value) for every parameter but the identifier that
\* names an attribute of the object.
SetAttributes(obj, parameters, id_key) ==
    [k \in DOMAIN obj |->
        IF k \in DOMAIN parameters /\ k # id_key THEN parameters[k] ELSE obj[k]]

\* Event(**parameters) / Intervention(**parameters); the housing and the
\* employment event that apply makes up.
HousingEvent(parameters) ==
    [event_id |-> "sim_housing", event_type |-> "housing_change", date |-> 0,
     impact_score |-> parameters.impact_score]

EmploymentEvent(parameters) ==
    [event_id |-> "sim_employment", event_type |-> "job_change", date |-> 0,
     impact_score |-> parameters.impact_score]

\* The branches of Mutation.apply on the copy; a type without a branch
\* leaves the copy as it is.
Mutated(graph, mutation) ==
    LET parameters == mutation.parameters IN
    CASE mutation.mutation_type = "add_event" ->
           [graph EXCEPT !.events = Append(@, parameters)]
      [] mutation.mutation_type = "remove_event" ->
           [graph EXCEPT !.events =
               SelectSeq(@, LAMBDA e : e.event_id # parameters.event_id)]
      [] mutation.mutation_type = "modify_event" ->
           [graph EXCEPT !.events =
               [i \in 1..Len(@) |->
                   IF @[i].event_id = parameters.event_id
                   THEN SetAttributes(@[i], parameters, "event_id")
                   ELSE @[i]]]
      [] mutation.mutation_type = "add_intervention" ->
           [graph EXCEPT !.interventions = Append(@, parameters)]
      [] mutation.mutation_type = "remove_intervention" ->
           [graph EXCEPT !.interventions =
               SelectSeq(@, LAMBDA i : i.intervention_id # parameters.intervention_id)]
      [] mutation.mutation_type = "modify_housing" ->
           [graph EXCEPT !.events = Append(@, HousingEvent(parameters)),
                         !.metadata.simulated_housing_status = parameters.status]
      [] mutation.mutation_type = "modify_employment" ->
           [graph EXCEPT !.events = Append(@, EmploymentEvent(parameters)),
                         !.metadata.simulated_employment_status = parameters.status]
      [] OTHER -> graph

\* Mutation.apply(graph): the heap after the call and the reference returned.
apply(heap, ref, mutation) ==
    LET modified == deepcopy(heap, ref)
    IN  [heap |-> [modified.heap EXCEPT ![modified.ref] = Mutated(@, mutation)],
         ref |-> modified.ref]

RECURSIVE apply_all(_, _, _)
\* for mutation in mutations: modified_graph = mutation.apply(modified_graph)
apply_all(heap, ref, mutations) ==
    IF mutations = <<>> THEN [heap |-> heap, ref |-> ref]
    ELSE LET modified == apply(heap, ref, Head(mutations))
         IN  apply_all(modified.heap, modified.ref, Tail(mutations))

\* ------------------------------------------------------ MockBayesianModel
\* RiskFactor.contribution: Field(ge=0.0, le=1.0)
ValidContribution(contribution) == 0 <= contribution /\ contribution <= 100

check_recent_substance_use(graph) ==
    \E i \in 1..Len(graph.substance_use_records) :
        /\ graph.substance_use_records[i].date <= 30
        /\ graph.substance_use_records[i].status \in {"active_use", "relapse"}

check_negative_events(graph) ==
    SelectSeq(graph.events,
              LAMBDA e : /\ e.date <= 90
                         /\ \/ e.event_type \in {"trauma", "job_change", "legal_event"}
                            \/ /\ e.impact_score # NoScore
                               /\ e.impact_score # 0
                               /\ e.impact_score < -30)

check_active_interventions(graph) ==
    SelectSeq(graph.interventions,
              LAMBDA i : /\ i.start_date >= 0
                         /\ (i.end_date = NoDate \/ i.end_date <= 0))

\* max(records, key=date): the first of the records with the latest date.
calculate_sobriety_days(graph) ==
    LET records == graph.substance_use_records IN
    IF records = <<>> THEN 999
    ELSE LET latest == CHOOSE i \in 1..Len(records) :
                          /\ \A j \in 1..Len(records) : records[i].date <= records[j].date
                          /\ \A j \in 1..(i - 1) : records[j].date > records[i].date
         IN  IF records[latest].status \in {"recovery", "remission"}
             THEN records[latest].date
             ELSE 0

\* The factors calculate_risk constructs, in the order it constructs them.
risk_factors(graph) ==
    (IF check_recent_substance_use(graph)
     THEN <<[factor_name |-> "Recent Substance Use", contribution |-> 25]>> ELSE <<>>)
    \o (IF check_negative_events(graph) # <<>>
        THEN <<[factor_name |-> "Recent Negative Life Events", contribution |-> 15]>>
        ELSE <<>>)
    \o (IF check_active_interventions(graph) # <<>>
        THEN <<[factor_name |-> "Active Treatment", contribution |-> -20]>> ELSE <<>>)
    \o (IF calculate_sobriety_days(graph) > 180
        THEN <<[factor_name |-> "Extended Sobriety", contribution |-> -15]>> ELSE <<>>)

RECURSIVE Sum(_)
Sum(factors) ==
    IF factors = <<>> THEN 0 ELSE Head(factors).contribution + Sum(Tail(factors))

Abs(x) == IF x < 0 THEN -x ELSE x

RECURSIVE InsertByContribution(_, _)
InsertByContribution(f, factors) ==
    IF factors = <<>> THEN <<f>>
    ELSE IF Abs(Head(factors).contribution) < Abs(f.contribution) THEN <<f>> \o factors
    ELSE <<Head(factors)>> \o InsertByContribution(f, Tail(factors))

RECURSIVE SortByContribution(_)
\* factors.sort(key=abs(contribution), reverse=True): stable
SortByContribution(factors) ==
    IF factors = <<>> THEN <<>>
    ELSE InsertByContribution(factors[Len(factors)],
                              SortByContribution(SubSeq(factors, 1, Len(factors) - 1)))

\* max(0.0, min(1.0, risk_score))
Clamp(score) == IF score < 0 THEN 0 ELSE IF score > 100 THEN 100 ELSE score

\* calculate_risk: the RiskReport, or the fault of the first RiskFactor whose
\* construction pydantic rejects.
calculate_risk(graph) ==
    LET factors == risk_factors(graph) IN
    IF \E i \in 1..Len(factors) : ~ValidContribution(factors[i].contribution)
    THEN [fault |-> TRUE, risk_score |-> 0, risk_factors |-> <<>>]
    ELSE [fault |-> FALSE, risk_score |-> Clamp(base_risk + Sum(factors)),
          risk_factors |-> SortByContribution(factors)]

\* calculate_risk_delta: both reports and their difference; a fault of
\* either calculate_risk call leaves it.
calculate_risk_delta(baseline, modified) ==
    LET baseline_report == calculate_risk(baseline)
        modified_report == calculate_risk(modified)
    IN  IF baseline_report.fault \/ modified_report.fault
        THEN [op |-> "calculate_risk_delta", fault |-> TRUE, risk_score |-> 0,
              baseline_risk |-> 0, delta |-> 0, risk_factors |-> <<>>]
        ELSE [op |-> "calculate_risk_delta", fault |-> FALSE,
              risk_score |-> modified_report.risk_score,
              baseline_risk |-> baseline_report.risk_score,
              delta |-> modified_report.risk_score - baseline_report.risk_score,
              risk_factors |-> modified_report.risk_factors]

\* model.calculate_risk(baseline_graph), called by itself.
CalculateRisk ==
    /\ risk_result' = [op |-> "calculate_risk",
                       fault |-> calculate_risk(baseline_graph).fault,
                       risk_score |-> calculate_risk(baseline_graph).risk_score,
                       baseline_risk |-> 0, delta |-> 0,
                       risk_factors |-> calculate_risk(baseline_graph).risk_factors]
    /\ UNCHANGED <<base_risk, baseline_graph, modified_graph, simulation_history,
                   stream_vars, auditor_vars>>

\* mutation.apply(baseline_graph), called by itself: the baseline object is
\* position 1 of the heap.
Apply(mutation) ==
    LET modified == apply(<<baseline_graph>>, 1, mutation) IN
    /\ baseline_graph' = modified.heap[1]
    /\ modified_graph' = [mutations |-> <<mutation>>,
                          same_object |-> modified.ref = 1,
                          graph |-> modified.heap[modified.ref]]
    /\ UNCHANGED <<base_risk, risk_result, simulation_history,
                   stream_vars, auditor_vars>>

\* What both simulate operations do with the graph their mutations gave.
Simulated(mutations, modified) ==
    LET result == calculate_risk_delta(modified.heap[1], modified.heap[modified.ref]) IN
    /\ baseline_graph' = modified.heap[1]
    /\ modified_graph' = [mutations |-> mutations,
                          same_object |-> modified.ref = 1,
                          graph |-> modified.heap[modified.ref]]
    /\ risk_result' = result
    /\ simulation_history' = IF result.fault THEN simulation_history
                             ELSE Append(simulation_history, result)
    /\ UNCHANGED <<base_risk, stream_vars, auditor_vars>>

simulate_mutation(mutation) ==
    Simulated(<<mutation>>, apply(<<baseline_graph>>, 1, mutation))

simulate_multiple_mutations(mutations) ==
    Simulated(mutations, apply_all(<<baseline_graph>>, 1, mutations))

\* The graphs, base risks and mutations of the environment.
EventLists ==
    { <<>>,
      <<[event_id |-> "e1", event_type |-> "other", date |-> 10, impact_score |-> NoScore]>> }

SubstanceUseLists ==
    { <<>>,
      <<[use_id |-> "u1", status |-> "active_use", date |-> 10]>>,
      <<[use_id |-> "u1", status |-> "recovery", date |-> 100]>>,
      <<[use_id |-> "u1", status |-> "recovery", date |-> 200]>> }

InterventionLists ==
    { <<>>,
      <<[intervention_id |-> "i1", start_date |-> 30, end_date |-> NoDate]>>,
      <<[intervention_id |-> "i1", start_date |-> 30, end_date |-> 5]>> }

Graphs ==
    { [EmptyGraph EXCEPT !.events = e, !.substance_use_records = u,
                         !.interventions = i] :
        e \in EventLists, u \in SubstanceUseLists, i \in InterventionLists }

BaseRisks == {0, 50, 100}

Mutations ==
    { [mutation_type |-> "add_event",
       parameters |-> [event_id |-> "e2", event_type |-> "legal_event", date |-> 5,
                       impact_score |-> NoScore]],
      [mutation_type |-> "remove_event", parameters |-> [event_id |-> "e1"]],
      [mutation_type |-> "modify_event",
       parameters |-> [event_id |-> "e1", impact_score |-> -80]],
      [mutation_type |-> "add_intervention",
       parameters |-> [intervention_id |-> "i2", start_date |-> 0, end_date |-> NoDate]],
      [mutation_type |-> "remove_intervention",
       parameters |-> [intervention_id |-> "i1"]],
      [mutation_type |-> "modify_intervention",
       parameters |-> [intervention_id |-> "i1", end_date |-> 1]],
      [mutation_type |-> "add_substance_use",
       parameters |-> [use_id |-> "u2", status |-> "relapse", date |-> 0]],
      [mutation_type |-> "modify_housing",
       parameters |-> [status |-> "stable", impact_score |-> 70]],
      [mutation_type |-> "modify_employment",
       parameters |-> [status |-> "employed", impact_score |-> 50]] }

MutationLists ==
    UNION { [1..n -> Mutations] : n \in 0..MaxMutations }

\* SpecSimulation: a model of any base risk and a context on any of the
\* graphs; risks are calculated and mutations applied and simulated.
InitSimulation ==
    /\ operating_mode = PROD_MODE
    /\ StreamInit
    /\ AuditorInit(DefaultThreshold, TRUE)
    /\ \E risk \in BaseRisks, graph \in Graphs : SimulationInit(risk, graph)

NextSimulation ==
    \/ CalculateRisk
    \/ \E mutation \in Mutations : Apply(mutation)
    \/ \E mutation \in Mutations :
          Len(simulation_history) < MaxSimulations /\ simulate_mutation(mutation)
    \/ \E mutations \in MutationLists :
          Len(simulation_history) < MaxSimulations
          /\ simulate_multiple_mutations(mutations)

SpecSimulation == InitSimulation /\ [][NextSimulation]_vars

\* ===================================================== UncertaintyAuditor
\* Texts are sequences of characters, confidences hundredths in 0..100.
\* str.lower() on the characters that occur in the texts below.
LowerChar(ch) ==
    CASE ch = "M" -> "m"
      [] ch = "G" -> "g"
      [] ch = "D" -> "d"
      [] OTHER -> ch

lower(text) == [i \in 1..Len(text) |-> LowerChar(text[i])]

\* A test for the empty text alone.
BlankIfEmpty(text) == text = <<>>

\* `not text or not text.strip()`: empty, or nothing but whitespace.
Blank(text) == \A i \in 1..Len(text) : text[i] = " "

\* `term in text`: substring test.
Contains(term, text) ==
    \E i \in 0..(Len(text) - Len(term)) : SubSeq(text, i + 1, i + Len(term)) = term

\* Two of the terms of UncertaintyAuditor.medical_terms.
medical_terms == { <<"m", "g">>, <<"d", "o", "s", "e">> }

\* found_terms: the configured terms that occur in the lower-cased text.
found_terms(text) == {term \in medical_terms : Contains(term, lower(text))}

\* A low-confidence rule that also fires at the threshold itself.
LowConfidenceInclusive(conf) == conf <= confidence_threshold

\* The primary criterion: confidence strictly below the threshold.
LowConfidence(conf) == conf < confidence_threshold

\* A secondary criterion that is evaluated whatever the primary one found.
MedicalRuleAlways(should_flag) == auto_flag_medical_terms

\* The secondary criterion is evaluated when medical-term flagging is on and
\* the primary criterion has not flagged the segment.
MedicalRuleApplies(should_flag) == auto_flag_medical_terms /\ ~should_flag

\* A ladder whose middle tier outranks the lowest confidences.
LowConfidencePrioritySwapped(conf) ==
    IF conf < 50 THEN 3 ELSE IF conf < 60 THEN 5 ELSE 2

\* The priority of a low-confidence segment.
LowConfidencePriority(conf) ==
    IF conf < 50 THEN 5 ELSE IF conf < 60 THEN 3 ELSE 2

RECURSIVE InsertAfterEqual(_, _)
\* Puts x behind the items of s that rank as high as x.
InsertAfterEqual(x, s) ==
    IF s = <<>> THEN <<x>>
    ELSE IF Head(s).priority < x.priority THEN <<x>> \o s
    ELSE <<Head(s)>> \o InsertAfterEqual(x, Tail(s))

RECURSIVE InsertBeforeEqual(_, _)
\* Puts x in front of the first item of s that does not outrank x.
InsertBeforeEqual(x, s) ==
    IF s = <<>> THEN <<x>>
    ELSE IF Head(s).priority <= x.priority THEN <<x>> \o s
    ELSE <<Head(s)>> \o InsertBeforeEqual(x, Tail(s))

RECURSIVE SortTiesReversed(_)
\* A descending sort that reverses the items of equal priority (an ascending
\* sort followed by reverse()).
SortTiesReversed(q) ==
    IF q = <<>> THEN <<>>
    ELSE InsertAfterEqual(Head(q), SortTiesReversed(Tail(q)))

RECURSIVE SortByPriority(_)
\* list.sort(key=priority, reverse=True): descending and stable, so items of
\* equal priority keep the order they have in q.
SortByPriority(q) ==
    IF q = <<>> THEN <<>>
    ELSE InsertBeforeEqual(Head(q), SortByPriority(Tail(q)))

\* The ReviewQueueItem that _add_to_review_queue builds; the n-th item ever
\* built gets identifier n (uuid4: a fresh identifier each time).
ReviewQueueItem(n, text, conf, reason, priority) ==
    [item_id |-> n,
     transcription |-> [text |-> text, confidence_score |-> conf],
     reason |-> reason, priority |-> priority,
     reviewed |-> FALSE, reviewer_notes |-> NoNotes]

\* A warning that is printed from the limit itself on.
SizeWarningAtLimit(size) == size >= max_queue_size

\* The warning is printed when the queue has outgrown the limit.
SizeWarning(size) == size > max_queue_size

\* An _add_to_review_queue that does not count what it inserts.
add_to_review_queueUncounted(text, conf, reason, priority) ==
    /\ review_queue' = SortByPriority(Append(review_queue,
                          ReviewQueueItem(nitems + 1, text, conf, reason, priority)))
    /\ nitems' = nitems + 1
    /\ total_flagged' = total_flagged
    /\ size_warning' = SizeWarning(Len(review_queue) + 1)

\* An _add_to_review_queue that appends and leaves the sorting out.
add_to_review_queueUnsorted(text, conf, reason, priority) ==
    /\ review_queue' = Append(review_queue,
                          ReviewQueueItem(nitems + 1, text, conf, reason, priority))
    /\ nitems' = nitems + 1
    /\ total_flagged' = total_flagged + 1
    /\ size_warning' = SizeWarning(Len(review_queue) + 1)

\* _add_to_review_queue: append, count, sort, warn.
add_to_review_queue(text, conf, reason, priority) ==
    /\ review_queue' = SortByPriority(Append(review_queue,
                          ReviewQueueItem(nitems + 1, text, conf, reason, priority)))
    /\ nitems' = nitems + 1
    /\ total_flagged' = total_flagged + 1
    /\ size_warning' = SizeWarning(Len(review_queue) + 1)

\* on_transcription_update: it has no await, so it runs as one step.
on_transcription_update(text, conf) ==
    /\ total_transcriptions_processed' = total_transcriptions_processed + 1
    /\ IF Blank(text)
       THEN UNCHANGED <<review_queue, nitems, total_flagged>> /\ size_warning' = FALSE
       ELSE LET low == LowConfidence(conf)
                terms == IF MedicalRuleApplies(low)
                         THEN found_terms(text) ELSE {}
                \* reason and priority as the second block leaves them: it
                \* overwrites what the first block assigned.
                reason == IF terms # {}
                          THEN [kind |-> "medical_terms", confidence |-> conf,
                                terms |-> terms]
                          ELSE [kind |-> "low_confidence", confidence |-> conf,
                                terms |-> {}]
                priority == IF terms # {} THEN 4 ELSE LowConfidencePriority(conf)
            IN  IF low \/ terms # {}
                THEN add_to_review_queue(text, conf, reason, priority)
                ELSE /\ UNCHANGED <<review_queue, nitems, total_flagged>>
                     /\ size_warning' = FALSE
    /\ UNCHANGED <<confidence_threshold, auto_flag_medical_terms, current_session_id,
                   max_queue_size, construction, snapshot, last_call,
                   stream_vars, simulation_vars>>

\* An on_session_start that starts the counters afresh.
on_session_startResets(session_id) ==
    /\ current_session_id' = session_id
    /\ total_transcriptions_processed' = 0
    /\ total_flagged' = 0
    /\ UNCHANGED <<confidence_threshold, auto_flag_medical_terms, review_queue,
                   nitems, last_event, max_queue_size, size_warning, construction,
                   snapshot, last_call,
                   stream_vars, simulation_vars>>

\* UncertaintyAuditor.on_session_start
on_session_start(session_id) ==
    /\ current_session_id' = session_id
    /\ UNCHANGED <<confidence_threshold, auto_flag_medical_terms, review_queue,
                   total_transcriptions_processed, total_flagged, nitems,
                   last_event, max_queue_size, size_warning, construction,
                   snapshot, last_call,
                   stream_vars, simulation_vars>>

\* An on_session_end that also empties the review queue.
on_session_endClearing(session_id) ==
    /\ total_transcriptions_processed' = 0
    /\ total_flagged' = 0
    /\ current_session_id' = NoSession
    /\ review_queue' = <<>>
    /\ UNCHANGED <<confidence_threshold, auto_flag_medical_terms,
                   nitems, last_event, max_queue_size, size_warning, construction,
                   snapshot, last_call,
                   stream_vars, simulation_vars>>

\* UncertaintyAuditor.on_session_end
on_session_end(session_id) ==
    /\ total_transcriptions_processed' = 0
    /\ total_flagged' = 0
    /\ current_session_id' = NoSession
    /\ UNCHANGED <<confidence_threshold, auto_flag_medical_terms, review_queue,
                   nitems, last_event, max_queue_size, size_warning, construction,
                   snapshot, last_call,
                   stream_vars, simulation_vars>>

\* The position of the first item with the given identifier, 0 if none.
FirstWithId(item_id) ==
    IF \E i \in 1..Len(review_queue) : review_queue[i].item_id = item_id
    THEN CHOOSE i \in 1..Len(review_queue) :
            /\ review_queue[i].item_id = item_id
            /\ \A j \in 1..(i - 1) : review_queue[j].item_id # item_id
    ELSE 0

\* A mark_reviewed that leaves the notes of an already reviewed item alone.
mark_reviewedOnce(item_id, reviewer_notes, found) ==
    /\ found = (FirstWithId(item_id) # 0)
    /\ review_queue' =
          IF FirstWithId(item_id) # 0 /\ ~review_queue[FirstWithId(item_id)].reviewed
          THEN [review_queue EXCEPT ![FirstWithId(item_id)] =
                   [@ EXCEPT !.reviewed = TRUE, !.reviewer_notes = reviewer_notes]]
          ELSE review_queue
    /\ UNCHANGED <<confidence_threshold, auto_flag_medical_terms,
                   total_transcriptions_processed, total_flagged,
                   current_session_id, nitems, last_event, max_queue_size,
                   size_warning, construction, snapshot,
                   stream_vars, simulation_vars>>

\* mark_reviewed: the first item with the identifier is marked and annotated;
\* found is what the call returns.
mark_reviewed(item_id, reviewer_notes, found) ==
    /\ found = (FirstWithId(item_id) # 0)
    /\ review_queue' =
          IF FirstWithId(item_id) # 0
          THEN [review_queue EXCEPT ![FirstWithId(item_id)] =
                   [@ EXCEPT !.reviewed = TRUE, !.reviewer_notes = reviewer_notes]]
          ELSE review_queue
    /\ UNCHANGED <<confidence_threshold, auto_flag_medical_terms,
                   total_transcriptions_processed, total_flagged,
                   current_session_id, nitems, last_event, max_queue_size,
                   size_warning, construction, snapshot,
                   stream_vars, simulation_vars>>

\* A clear_reviewed_items that empties the queue.
clear_reviewed_itemsAll(removed) ==
    /\ review_queue' = <<>>
    /\ removed = Len(review_queue) - Len(review_queue')
    /\ UNCHANGED <<confidence_threshold, auto_flag_medical_terms,
                   total_transcriptions_processed, total_flagged,
                   current_session_id, nitems, last_event, max_queue_size,
                   size_warning, construction, snapshot,
                   stream_vars, simulation_vars>>

\* clear_reviewed_items: keeps the items that are not reviewed, in order;
\* removed is what the call returns.
clear_reviewed_items(removed) ==
    /\ review_queue' = SelectSeq(review_queue, LAMBDA item : ~item.reviewed)
    /\ removed = Len(review_queue) - Len(review_queue')
    /\ UNCHANGED <<confidence_threshold, auto_flag_medical_terms,
                   total_transcriptions_processed, total_flagged,
                   current_session_id, nitems, last_event, max_queue_size,
                   size_warning, construction, snapshot,
                   stream_vars, simulation_vars>>

\* The references to the items of a list, in its order: a returned list is a
\* new list that holds the item objects of the queue themselves.
References(q) == [i \in 1..Len(q) |-> q[i].item_id]

\* get_review_queue: a copy of the list.
get_review_queue ==
    /\ snapshot' = References(review_queue)
    /\ UNCHANGED <<confidence_threshold, auto_flag_medical_terms, review_queue,
                   total_transcriptions_processed, total_flagged,
                   current_session_id, nitems, last_event, max_queue_size,
                   size_warning, construction, last_call, stream_vars, simulation_vars>>

\* get_unreviewed_items: a new list of the items that are not reviewed.
get_unreviewed_items ==
    /\ snapshot' = References(SelectSeq(review_queue, LAMBDA item : ~item.reviewed))
    /\ UNCHANGED <<confidence_threshold, auto_flag_medical_terms, review_queue,
                   total_transcriptions_processed, total_flagged,
                   current_session_id, nitems, last_event, max_queue_size,
                   size_warning, construction, last_call, stream_vars, simulation_vars>>

\* What the holder of a returned list can do with it. Changes of the list
\* itself stay in the list.
SnapshotAdd(k) ==
    /\ k \in 1..Len(snapshot)
    /\ snapshot' = Append(snapshot, snapshot[k])
    /\ UNCHANGED <<confidence_threshold, auto_flag_medical_terms, review_queue,
                   total_transcriptions_processed, total_flagged,
                   current_session_id, nitems, last_event, max_queue_size,
                   size_warning, construction, last_call, stream_vars, simulation_vars>>

SnapshotRemove(k) ==
    /\ k \in 1..Len(snapshot)
    /\ snapshot' = SubSeq(snapshot, 1, k - 1) \o SubSeq(snapshot, k + 1, Len(snapshot))
    /\ UNCHANGED <<confidence_threshold, auto_flag_medical_terms, review_queue,
                   total_transcriptions_processed, total_flagged,
                   current_session_id, nitems, last_event, max_queue_size,
                   size_warning, construction, last_call, stream_vars, simulation_vars>>

SnapshotReorder ==
    /\ Len(snapshot) >= 2
    /\ snapshot' = [i \in 1..Len(snapshot) |-> snapshot[Len(snapshot) + 1 - i]]
    /\ UNCHANGED <<confidence_threshold, auto_flag_medical_terms, review_queue,
                   total_transcriptions_processed, total_flagged,
                   current_session_id, nitems, last_event, max_queue_size,
                   size_warning, construction, last_call, stream_vars, simulation_vars>>

\* The queue after an assignment to an attribute of the item object that
\* snapshot[k] refers to: the queue holds the same object.
AssignThrough(k, field, value) ==
    [i \in 1..Len(review_queue) |->
        IF review_queue[i].item_id = snapshot[k]
        THEN [review_queue[i] EXCEPT ![field] = value]
        ELSE review_queue[i]]

\* snapshot[k].reviewed = reviewed
SnapshotSetReviewed(k, reviewed) ==
    /\ k \in 1..Len(snapshot)
    /\ review_queue' = AssignThrough(k, "reviewed", reviewed)
    /\ UNCHANGED <<confidence_threshold, auto_flag_medical_terms, snapshot,
                   total_transcriptions_processed, total_flagged,
                   current_session_id, nitems, last_event, max_queue_size,
                   size_warning, construction, last_call, stream_vars, simulation_vars>>

\* snapshot[k].reviewer_notes = reviewer_notes
SnapshotSetNotes(k, reviewer_notes) ==
    /\ k \in 1..Len(snapshot)
    /\ review_queue' = AssignThrough(k, "reviewer_notes", reviewer_notes)
    /\ UNCHANGED <<confidence_threshold, auto_flag_medical_terms, snapshot,
                   total_transcriptions_processed, total_flagged,
                   current_session_id, nitems, last_event, max_queue_size,
                   size_warning, construction, last_call, stream_vars, simulation_vars>>

\* snapshot[k].priority = priority
SnapshotSetPriority(k, priority) ==
    /\ k \in 1..Len(snapshot)
    /\ review_queue' = AssignThrough(k, "priority", priority)
    /\ UNCHANGED <<confidence_threshold, auto_flag_medical_terms, snapshot,
                   total_transcriptions_processed, total_flagged,
                   current_session_id, nitems, last_event, max_queue_size,
                   size_warning, construction, last_call, stream_vars, simulation_vars>>

\* ------------------------------------------------- auditor environments
\* The events handed to the auditor and the reviewer's inputs.
Texts ==
    { <<>>, <<" ">>, <<"o", "k">>, <<"5", " ", "m", "g">>, <<"5", "M", "G">>,
      <<"D", "o", "s", "e", " ", "m", "g">> }

Confidences == {0, 49, 50, 59, 60, 69, 70, 100}

Thresholds == {0, 50, 55, 60, 70, 100}

QueueTexts == { <<>>, <<"o", "k">>, <<"5", "M", "G">> }

QueueConfidences == {45, 65, 95}

Notes == {NoNotes, "n1"}

\* SpecFlagging: an auditor of any valid configuration is handed events of
\* any text and confidence, one after the other; last_event keeps the latest.
InitFlagging ==
    /\ operating_mode = PROD_MODE
    /\ StreamInit
    /\ SimulationIdle
    /\ \E threshold \in Thresholds, auto_flag \in BOOLEAN :
          AuditorInit(threshold, auto_flag)

NextFlagging ==
    \E text \in Texts, conf \in Confidences :
        /\ total_transcriptions_processed < MaxFlagEvents
        /\ on_transcription_update(text, conf)
        /\ last_event' = [text |-> text, confidence_score |-> conf]

SpecFlagging == InitFlagging /\ [][NextFlagging]_vars

\* SpecAuditor: a default auditor, with or without medical-term flagging, is
\* driven by any sequence of its callbacks and of the reviewer's calls.
InitAuditor ==
    /\ operating_mode = PROD_MODE
    /\ StreamInit
    /\ SimulationIdle
    /\ \E auto_flag \in BOOLEAN : AuditorInit(DefaultThreshold, auto_flag)

NextAuditor ==
    \/ \E text \in QueueTexts, conf \in QueueConfidences :
          /\ nitems < MaxItems
          /\ total_transcriptions_processed < MaxProcessed
          /\ on_transcription_update(text, conf)
          /\ UNCHANGED last_event
    \/ \E session_id \in Sessions : on_session_start(session_id)
    \/ \E session_id \in Sessions : on_session_end(session_id)
    \/ \E item_id \in 1..(nitems + 1), reviewer_notes \in Notes :
          \E found \in BOOLEAN :
              mark_reviewed(item_id, reviewer_notes, found) /\ UNCHANGED last_call
    \/ \E removed \in 0..Len(review_queue) :
          clear_reviewed_items(removed) /\ UNCHANGED last_call

SpecAuditor == InitAuditor /\ [][NextAuditor]_vars

\* SpecReview: a default auditor flags events of two priorities and a
\* reviewer marks and purges; last_call keeps the reviewer's latest call, what
\* it returned, and whether it repeats (the item was already reviewed, or the
\* preceding call was a purge as well).
ReviewTexts == { <<"o", "k">> }

ReviewConfidences == {45, 65}

Reviewed(item_id) ==
    \E i \in 1..Len(review_queue) :
        review_queue[i].item_id = item_id /\ review_queue[i].reviewed

InitReview ==
    /\ operating_mode = PROD_MODE
    /\ StreamInit
    /\ SimulationIdle
    /\ AuditorInit(DefaultThreshold, TRUE)

NextReview ==
    \/ \E text \in ReviewTexts, conf \in ReviewConfidences :
          /\ nitems < MaxReviewItems
          /\ on_transcription_update(text, conf)
          /\ UNCHANGED last_event
    \/ \E item_id \in 1..(nitems + 1), reviewer_notes \in Notes, found \in BOOLEAN :
          /\ mark_reviewed(item_id, reviewer_notes, found)
          /\ last_call' = [op |-> "mark_reviewed", item_id |-> item_id,
                           reviewer_notes |-> reviewer_notes, found |-> found,
                           removed |-> 0, again |-> Reviewed(item_id)]
    \/ \E removed \in 0..Len(review_queue) :
          /\ clear_reviewed_items(removed)
          /\ last_call' = [op |-> "clear_reviewed_items", item_id |-> 0,
                           reviewer_notes |-> NoNotes, found |-> FALSE,
                           removed |-> removed,
                           again |-> (last_call.op = "clear_reviewed_items")]

SpecReview == InitReview /\ [][NextReview]_vars

\* SpecSnapshot: a caller takes lists from the getters of a default auditor
\* and changes them, and the items in them, while events are flagged.
AssignedPriorities == {1, 5}

InitSnapshot ==
    /\ operating_mode = PROD_MODE
    /\ StreamInit
    /\ SimulationIdle
    /\ AuditorInit(DefaultThreshold, TRUE)

NextSnapshot ==
    \/ \E text \in ReviewTexts, conf \in ReviewConfidences :
          /\ nitems < MaxSnapshotItems
          /\ on_transcription_update(text, conf)
          /\ UNCHANGED last_event
    \/ get_review_queue
    \/ get_unreviewed_items
    \/ \E k \in 1..Len(snapshot) : Len(snapshot) < MaxSnapshotLen /\ SnapshotAdd(k)
    \/ \E k \in 1..Len(snapshot) : SnapshotRemove(k)
    \/ SnapshotReorder
    \/ \E k \in 1..Len(snapshot), reviewed \in BOOLEAN : SnapshotSetReviewed(k, reviewed)
    \/ \E k \in 1..Len(snapshot), reviewer_notes \in Notes :
          SnapshotSetNotes(k, reviewer_notes)
    \/ \E k \in 1..Len(snapshot), priority \in AssignedPriorities :
          SnapshotSetPriority(k, priority)

SpecSnapshot == InitSnapshot /\ [][NextSnapshot]_vars

\* SpecReaders: the handler of a default auditor runs between a reader's
\* calls of the getters and a reviewer's calls of mark_reviewed and
\* clear_reviewed_items, in any order.
InitReaders ==
    /\ operating_mode = PROD_MODE
    /\ StreamInit
    /\ SimulationIdle
    /\ AuditorInit(DefaultThreshold, TRUE)

NextReaders ==
    \/ \E text \in ReviewTexts, conf \in ReviewConfidences :
          /\ nitems < MaxReviewItems
          /\ on_transcription_update(text, conf)
          /\ UNCHANGED last_event
    \/ get_review_queue
    \/ get_unreviewed_items
    \/ \E item_id \in 1..nitems, found \in BOOLEAN :
          mark_reviewed(item_id, NoNotes, found) /\ UNCHANGED last_call
    \/ \E removed \in 0..Len(review_queue) :
          clear_reviewed_items(removed) /\ UNCHANGED last_call

SpecReaders == InitReaders /\ [][NextReaders]_vars

\* SpecQueueLimit: an auditor with a small queue-size limit is handed more
\* events than the limit; last_event keeps the latest.
MaxQueueSizes == {0, 1, 2}

InitQueueLimit ==
    /\ operating_mode = PROD_MODE
    /\ StreamInit
    /\ SimulationIdle
    /\ \E max_size \in MaxQueueSizes : AuditorInitWith(DefaultThreshold, max_size, TRUE)

NextQueueLimit ==
    \E text \in ReviewTexts, conf \in QueueConfidences :
        /\ total_transcriptions_processed < MaxLimitEvents
        /\ on_transcription_update(text, conf)
        /\ last_event' = [text |-> text, confidence_score |-> conf]

SpecQueueLimit == InitQueueLimit /\ [][NextQueueLimit]_vars

\* SpecConstruct: a caller constructs an auditor with any threshold, in range
\* or not, and hands events to the auditor it got, if it got one.
ConstructorThresholds == {-1, 0, 70, 100, 101}

InitConstruct ==
    /\ operating_mode = PROD_MODE
    /\ StreamInit
    /\ SimulationIdle
    /\ NoAuditor

NextConstruct ==
    \/ \E threshold \in ConstructorThresholds :
          construct(threshold, DefaultMaxQueueSize, TRUE)
    \/ \E text \in QueueTexts, conf \in QueueConfidences :
          /\ construction.done /\ ~construction.fault
          /\ total_transcriptions_processed < MaxConstructEvents
          /\ on_transcription_update(text, conf)
          /\ UNCHANGED last_event

SpecConstruct == InitConstruct /\ [][NextConstruct]_vars

\* ================================================================ claims
IsPrefix(s, t) == Len(s) <= Len(t) /\ \A i \in 1..Len(s) : s[i] = t[i]

NoDuplicates(s) == \A i, j \in 1..Len(s) : s[i] = s[j] => i = j

\* C1: a handler that raises during a fan-out changes nothing but its own
\* task: the loop stays suspended at the join (the fault reaches neither the
\* loop nor the caller of start()), every sibling handler stays pending to be
\* run to its end, and the session stays Active with its fields as they were.
C1_FaultIsolated ==
    [][\A l \in Sessions :
         (loops'[l].faulted /\ loops'[l].pending # loops[l].pending)
         => /\ loops[l].pc = "join" /\ loops'[l].pc = "join"
            /\ \E a \in loops[l].pending : loops'[l].pending = loops[l].pending \ {a}
            /\ ~StartRaised(l)'
            /\ UNCHANGED <<is_active, current_session, audio_provider, transcriber,
                           transcription_buffer, streaming, agents>>]_vars

\* C1 witness: a session is Active and one handler of a fan-out has raised
\* while a sibling handler of the same fan-out is still to finish.
C1_Witness ==
    \E l \in Sessions :
        /\ is_active /\ loops[l].pc = "join"
        /\ loops[l].faulted /\ loops[l].pending # {}

\* C2: a loop that is not suspended at the join of a fan-out has no handler
\* outstanding: when it acquires, transcribes and dispatches event N+1 every
\* handler of event N has returned or faulted.
C2_FanOutsInOrder ==
    \A l \in Sessions : loops[l].pc # "join" => loops[l].pending = {}

\* C2 witness: the only loop is in the fan-out of its second event with a
\* handler outstanding.
C2_Witness ==
    /\ nstarts = 1 /\ nchunks = 2
    /\ loops[1].pc = "join" /\ loops[1].pending # {}

\* C3: a start() call made while a session is Active raises the
\* session-state fault and changes nothing else: the session, the audio
\* source, the transcriber, the buffer, the flag, the agents' session and the
\* audio stream are as before, and no loop is created.
C3_StartWhileActive ==
    [][(is_active /\ (nstarts' # nstarts \/ start_rejected' # start_rejected))
       => /\ start_rejected'
          /\ UNCHANGED <<current_session, audio_provider, transcriber,
                         transcription_buffer, is_active, agent_session, streaming,
                         agents, loops, nstarts, nchunks, session_log>>]_vars

\* C3 witness: a start() call has been rejected and the session it met is
\* still Active with its loop running.
C3_Witness ==
    /\ is_active /\ start_rejected
    /\ current_session # NoSession /\ Running(current_session)

\* C4 (as claimed): at most one pipeline loop is running at any time.
C4_OneLoop == Cardinality({l \in Sessions : Running(l)}) <= 1

\* C5 (as claimed): once the pipeline loop of a start() call has begun, the
\* call has returned to its caller.
C5_StartReturnsEarly == \A l \in Sessions : Running(l) => StartReturned(l)

\* C6 (as claimed): the loop of a stopped session passes the flag check for
\* no further chunk, whatever is called after stop().
C6_NoChunkAfterStop ==
    [][\A l \in Sessions :
         (loops[l].pc = "acquire" /\ current_session # l)
         => loops'[l].pc # "transcribe"]_vars

\* C7: in ephemeral mode, whenever no session is Active the transcript
\* reader yields nothing.
C7_EphemeralEmpty ==
    (operating_mode = PROD_MODE /\ ~is_active) => get_transcription_stream = <<>>

\* C7 witness: ephemeral mode, the session is stopped, and the chunk that
\* was in flight at stop() has been transcribed and fanned out since.
C7_Witness ==
    /\ operating_mode = PROD_MODE /\ ~is_active
    /\ \E l \in Sessions : loops[l].pc = "join" /\ loops[l].ctx = NoSession

\* C8: in persist mode, whenever no session is Active the transcript reader
\* yields the events transcribed during the last session, in the order of
\* transcription, and no event twice.
C8_PersistRetains ==
    (operating_mode = DEV_MODE /\ ~is_active)
    => /\ IsPrefix(session_log, get_transcription_stream)
       /\ NoDuplicates(get_transcription_stream)

\* C8 witness: persist mode, a session in which two chunks were transcribed
\* has been stopped.
C8_Witness ==
    /\ operating_mode = DEV_MODE /\ ~is_active
    /\ Len(session_log) = 2

\* C9 (as claimed): while a session is Active the buffer holds as many
\* events as chunks have been transcribed, in either mode.
C9_UniformAccumulation ==
    is_active => Len(transcription_buffer) = Len(session_log)

\* C9 (amended): while a session is Active the buffer holds the transcribed
\* events in persist mode and is empty in ephemeral mode.
C9_ModeDependentAccumulation ==
    is_active =>
        IF operating_mode = DEV_MODE
        THEN transcription_buffer = session_log
        ELSE transcription_buffer = <<>>

\* C9 witness: ephemeral mode, a session is Active and chunks have been
\* transcribed in it.
C9_Witness ==
    /\ operating_mode = PROD_MODE /\ is_active
    /\ Len(session_log) = 2

\* C10 (as claimed): a fault of the transcriber does not end the loop and
\* does not reach the caller of start().
C10_TranscriberFaultSkipped == \A l \in Sessions : ~StartRaised(l)

\* C11 (as claimed): when the audio source raises while the loop awaits a
\* chunk, the fault reaches the caller of start() and the orchestrator has
\* performed a stop(): flag down, audio source stopped, no current session,
\* every registered agent told the session has ended, buffer erased in
\* ephemeral mode.
C11_AudioFaultStops ==
    [][\A l \in Sessions :
         (loops[l].pc = "acquire" /\ StartRaised(l)')
         => /\ ~is_active' /\ ~streaming'
            /\ current_session' = NoSession /\ audio_provider' = NoProvider
            /\ \A a \in Range(agents) : agent_session'[a] = NoSession
            /\ (operating_mode = PROD_MODE => transcription_buffer' = <<>>)]_vars

\* C12 (as claimed): the outcomes of the handlers of a fan-out are on record
\* once the fan-out has joined; in particular the join of a fan-out in which
\* a handler raised leaves that fault on record.
C12_OutcomeReported ==
    [][\A l \in Sessions :
         (loops[l].pc = "join" /\ loops[l].faulted /\ loops'[l].pc = "acquire")
         => loops'[l].faulted]_vars

\* C13: a fan-out is dispatched to exactly the agents registered at that
\* moment (to none, without a join, when no agent is registered); while it is
\* in flight its set of outstanding deliveries changes only by one of its own
\* handlers finishing, never by a register or unregister call, and the loop
\* leaves the join only when every agent of the snapshot has been served.
C13_StableSnapshot ==
    [][\A l \in Sessions :
         /\ (loops[l].pc = "transcribe" /\ loops'[l].pc = "join")
            => loops'[l].pending = Range(agents)
         /\ (loops[l].pc = "transcribe" /\ loops'[l].pc = "acquire")
            => agents = <<>>
         /\ (loops[l].pc = "join" /\ loops'[l].pc = "join")
            => \/ loops'[l].pending = loops[l].pending
               \/ /\ agents' = agents
                  /\ \E a \in loops[l].pending :
                        loops'[l].pending = loops[l].pending \ {a}
         /\ (loops[l].pc = "join" /\ loops'[l].pc # "join")
            => loops[l].pending = {}]_vars

\* C13 witness: a fan-out is in flight, one agent of its snapshot has been
\* unregistered and is still to be served, and an agent that is registered
\* now is not among its outstanding deliveries.
C13_Witness ==
    \E l \in Sessions :
        /\ loops[l].pc = "join"
        /\ loops[l].pending \ Range(agents) # {}
        /\ Range(agents) \ loops[l].pending # {}

\* C14: while no session is Active, a step that is neither a step of a
\* pipeline loop, nor a register or unregister call, nor an accepted start()
\* (so: a stop() call) changes nothing: no agent is notified, the audio
\* source and the buffer are untouched, the state stays Idle.  A second
\* stop() right after a first one is such a step, so it delivers no second
\* on_session_end.
C14_StopWhileIdleNoOp ==
    [][(~is_active /\ UNCHANGED <<loops, agents, nstarts>>) => UNCHANGED vars]_vars

\* C14 witness: a session has been stopped, the orchestrator is Idle, and a
\* registered agent still holds the identifier of the ended session (it was
\* not registered when stop() ran): a stop() that notified here would show.
C14_Witness ==
    /\ ~is_active /\ nstarts > 0 /\ current_session = NoSession
    /\ \E a \in Range(agents) : agent_session[a] # NoSession

\* C15: the step that takes the orchestrator from Active to Idle (a stop()
\* call) leaves the audio source stopped, every agent registered at that
\* moment told that the session has ended, the buffer erased in ephemeral
\* mode and kept in persist mode, no current session, source or transcriber,
\* and the guard of start() open.
C15_StopWhileActive ==
    [][(is_active /\ ~is_active')
       => /\ ~streaming'
          /\ \A a \in Range(agents) : agent_session'[a] = NoSession
          /\ transcription_buffer' =
                IF operating_mode = PROD_MODE THEN <<>> ELSE transcription_buffer
          /\ current_session' = NoSession
          /\ audio_provider' = NoProvider /\ ~transcriber'
          /\ ~StartRejected']_vars

\* C15 witness: stop() has run on an Active session with an agent
\* registered: the orchestrator is Idle while the loop of the stopped session
\* is still suspended.
C15_Witness ==
    /\ ~is_active /\ agents # <<>>
    /\ \E l \in Sessions : Running(l)

\* C16: an accepted start() leaves, at its first suspension point, the
\* orchestrator Active with the new session current, the buffer empty, every
\* registered agent holding the new session's identifier, the audio source
\* streaming, and the new loop with its first chunk not yet transcribed: no
\* event of the session has been dispatched to any agent.
C16_StartNotifiesFirst ==
    [][nstarts' # nstarts
       => /\ is_active' /\ current_session' = nstarts'
          /\ transcription_buffer' = <<>>
          /\ \A a \in Range(agents) : agent_session'[a] = nstarts'
          /\ streaming'
          /\ loops'[nstarts'].pc = "transcribe"
          /\ loops'[nstarts'].pending = {} /\ loops'[nstarts'].ctx = NoSession
          /\ session_log' = <<>>]_vars

\* C16 witness: start() has just been accepted with an agent registered: the
\* agent holds the session's identifier and the loop of the session is
\* suspended on its first chunk.
C16_Witness ==
    /\ is_active /\ current_session # NoSession /\ agents # <<>>
    /\ \A a \in Range(agents) : agent_session[a] = current_session
    /\ loops[current_session].pc = "transcribe" /\ session_log = <<>>

\* C17: the registered-agent list never holds an agent twice, and every
\* step that changes it either appends one agent that was not in it or
\* removes the one entry of an agent that was in it: registering a
\* registered agent and unregistering an unregistered one change nothing,
\* before and during a session, so a fan-out (dispatched to the agents of the
\* list) hands each event to an agent once.
C17_RegisterIdempotent ==
    /\ []NoDuplicates(agents)
    /\ [][agents' # agents
          => \/ \E a \in Agents \ Range(agents) : agents' = Append(agents, a)
             \/ \E a \in Range(agents) :
                   /\ Range(agents') = Range(agents) \ {a}
                   /\ Len(agents') = Len(agents) - 1]_vars

\* C17 witness: both agents are registered during a session, the second
\* one behind the first, and a fan-out to exactly these two is in flight.
C17_Witness ==
    /\ is_active /\ Len(agents) = 2
    /\ \E l \in Sessions :
          loops[l].pc = "join" /\ loops[l].pending = Range(agents)

\* C18: in every state of the auditor the queue is in descending order of
\* priority, and of two items of equal priority the one inserted first (the
\* smaller identifier) comes first.
C18_QueueSorted ==
    \A i, j \in 1..Len(review_queue) :
        i < j => \/ review_queue[i].priority > review_queue[j].priority
                 \/ /\ review_queue[i].priority = review_queue[j].priority
                    /\ review_queue[i].item_id < review_queue[j].item_id

\* C18 witness: the sort has moved the item inserted second in front of the
\* one inserted first, which the reviewer has marked since.
C18_Witness ==
    /\ Len(review_queue) = 2
    /\ review_queue[1].item_id = 2 /\ review_queue[2].item_id = 1
    /\ review_queue[2].reviewed

\* The item created by the latest event, if that event was flagged: the item
\* created last carries the latest event.
LatestItems ==
    {i \in 1..Len(review_queue) :
        /\ review_queue[i].item_id = nitems
        /\ review_queue[i].transcription = last_event}

\* The texts of the environment in which a configured term occurs, whatever
\* the case of its letters.
TextsWithTerm ==
    { <<"5", " ", "m", "g">>, <<"5", "M", "G">>,
      <<"D", "o", "s", "e", " ", "m", "g">> }

\* C19: an event that is not blank and whose confidence is below the
\* threshold creates an item; every item of a confidence below the threshold
\* has priority 5 below 0.50, priority 3 from 0.50 and below 0.60, priority 2
\* from 0.60; and of two such items the one of the higher confidence never
\* has the higher priority.  For every threshold of the environment.
C19_PriorityLadder ==
    /\ (/\ total_transcriptions_processed > 0
        /\ ~Blank(last_event.text)
        /\ last_event.confidence_score < confidence_threshold)
       => LatestItems # {}
    /\ \A i \in 1..Len(review_queue) :
          LET c == review_queue[i].transcription.confidence_score
              p == review_queue[i].priority
          IN  c < confidence_threshold
              => /\ c < 50 => p = 5
                 /\ (50 <= c /\ c < 60) => p = 3
                 /\ 60 <= c => p = 2
    /\ \A i, j \in 1..Len(review_queue) :
          LET ci == review_queue[i].transcription.confidence_score
              cj == review_queue[j].transcription.confidence_score
          IN  (ci < confidence_threshold /\ cj < confidence_threshold /\ ci <= cj)
              => review_queue[i].priority >= review_queue[j].priority

\* C19 witness: under the threshold 1.00 an event of confidence 0.59 and then
\* one of confidence 0.70 have been flagged for their confidence.
C19_Witness ==
    /\ confidence_threshold = 100 /\ Len(review_queue) = 2
    /\ review_queue[1].transcription.confidence_score = 59
    /\ review_queue[2].transcription.confidence_score = 70
    /\ last_event.confidence_score = 70

\* C20: an event whose confidence equals the threshold creates an item
\* exactly when medical-term flagging is enabled and a configured term occurs
\* in its text, and that item has priority 4 and the medical-term reason.
C20_AtThreshold ==
    (total_transcriptions_processed > 0
     /\ last_event.confidence_score = confidence_threshold)
    => /\ LatestItems # {}
          <=> (auto_flag_medical_terms /\ last_event.text \in TextsWithTerm)
       /\ \A i \in LatestItems :
             /\ review_queue[i].priority = 4
             /\ review_queue[i].reason.kind = "medical_terms"

\* C20 witness: with the threshold 0.70 and medical-term flagging enabled,
\* an event of confidence 0.70 that names a term in capitals has been flagged.
C20_Witness ==
    /\ confidence_threshold = 70 /\ auto_flag_medical_terms
    /\ last_event = [text |-> <<"5", "M", "G">>, confidence_score |-> 70]
    /\ LatestItems # {}

\* C21: one event creates at most one item; an event that is not blank and
\* whose confidence is at or above the threshold creates an item exactly when
\* medical-term flagging is enabled and a configured term occurs in its
\* text, and that item has priority 4; an event that is not blank, whose
\* confidence is below the threshold and in whose text a term occurs creates
\* one item with the priority of its confidence (5, 3 or 2) and the
\* low-confidence reason.
C21_RulePrecedence ==
    /\ nitems <= total_transcriptions_processed
    /\ Len(review_queue) = nitems
    /\ Cardinality(LatestItems) <= 1
    /\ (/\ total_transcriptions_processed > 0
        /\ ~Blank(last_event.text)
        /\ last_event.confidence_score >= confidence_threshold)
       => /\ LatestItems # {}
             <=> (auto_flag_medical_terms /\ last_event.text \in TextsWithTerm)
          /\ \A i \in LatestItems : review_queue[i].priority = 4
    /\ (/\ total_transcriptions_processed > 0
        /\ last_event.text \in TextsWithTerm
        /\ last_event.confidence_score < confidence_threshold)
       => /\ LatestItems # {}
          /\ \A i \in LatestItems :
                /\ review_queue[i].priority \in {5, 3, 2}
                /\ review_queue[i].reason.kind = "low_confidence"

\* C21 witness: with medical-term flagging enabled and the threshold 0.70, an
\* event of confidence 0.49 that names two terms has created one item, of
\* priority 5.
C21_Witness ==
    /\ auto_flag_medical_terms /\ confidence_threshold = 70
    /\ total_transcriptions_processed = 1
    /\ last_event = [text |-> <<"D", "o", "s", "e", " ", "m", "g">>,
                     confidence_score |-> 49]
    /\ Len(review_queue) = 1 /\ review_queue[1].priority = 5

\* C22: an on_event call whose text is empty or only whitespace adds one to
\* the processed counter and leaves the flagged counter, the queue and the
\* number of items created as they were, whatever the confidence, the
\* threshold and the medical-term switch.
C22_BlankEventOnlyCounts ==
    [][(total_transcriptions_processed' # total_transcriptions_processed
        /\ last_event'.text \in { <<>>, <<" ">> })
       => /\ total_transcriptions_processed' = total_transcriptions_processed + 1
          /\ UNCHANGED <<total_flagged, review_queue, nitems>>]_vars

\* C22 witness: under the threshold 0.70 an event of one space and of
\* confidence 0 has been processed, and nothing has been flagged.
C22_Witness ==
    /\ confidence_threshold = 70
    /\ last_event = [text |-> <<" ">>, confidence_score |-> 0]
    /\ total_transcriptions_processed = 1
    /\ total_flagged = 0 /\ review_queue = <<>>

\* The identifiers of the items of a queue.
Ids(q) == {q[i].item_id : i \in 1..Len(q)}

\* C23: an item that is in the queue before a step and not after it was
\* reviewed, and the step is a purge (the queue after it is the queue before
\* it without its reviewed items, the counters and the session are as they
\* were); an item that is in the queue after a step and not before it is the
\* one item created by that step, an on_event call that counts it as flagged.
C23_OnlyPurgeRemoves ==
    [][/\ \A i \in 1..Len(review_queue) :
            review_queue[i].item_id \notin Ids(review_queue')
            => /\ review_queue[i].reviewed
               /\ review_queue' = SelectSeq(review_queue, LAMBDA item : ~item.reviewed)
               /\ UNCHANGED <<total_transcriptions_processed, total_flagged,
                              nitems, current_session_id>>
       /\ \A id \in Ids(review_queue') \ Ids(review_queue) :
            /\ id = nitems + 1 /\ nitems' = nitems + 1
            /\ total_flagged' = total_flagged + 1
            /\ total_transcriptions_processed' = total_transcriptions_processed + 1
            /\ Len(review_queue') = Len(review_queue) + 1]_vars

\* C23 witness: two items have been created, one has been reviewed and
\* purged, the session has ended since, and the item that was not reviewed
\* is still in the queue.
C23_Witness ==
    /\ nitems = 2 /\ Len(review_queue) = 1
    /\ ~review_queue[1].reviewed
    /\ total_flagged = 0 /\ current_session_id = NoSession

\* C27: a step that changes the auditor's session or lowers one of its
\* counters (a session callback) leaves the queue, with every item's
\* reviewed state, as it was; when it ends the session both counters are
\* zero after it, when it starts one both counters are as they were.
C27_SessionCallbacks ==
    [][(\/ current_session_id' # current_session_id
        \/ total_transcriptions_processed' < total_transcriptions_processed
        \/ total_flagged' < total_flagged)
       => /\ review_queue' = review_queue /\ nitems' = nitems
          /\ IF current_session_id' = NoSession
             THEN total_transcriptions_processed' = 0 /\ total_flagged' = 0
             ELSE UNCHANGED <<total_transcriptions_processed, total_flagged>>]_vars

\* C27 witness: an item flagged and reviewed in an earlier session is in the
\* queue during a later session in which an event has been processed and
\* none flagged.
C27_Witness ==
    /\ current_session_id # NoSession
    /\ total_transcriptions_processed > 0 /\ total_flagged = 0
    /\ \E i \in 1..Len(review_queue) : review_queue[i].reviewed

\* C24: mark_reviewed returns true exactly when an item with the identifier
\* is in the queue; that item is then reviewed and carries the given notes,
\* also when it was reviewed before (the notes are overwritten); no other item
\* changes, and for an unknown identifier no item changes at all.
MarkStep ==
    /\ total_transcriptions_processed' = total_transcriptions_processed
    /\ last_call'.op = "mark_reviewed"

C24_MarkReviewed ==
    [][MarkStep =>
         LET id == last_call'.item_id IN
         /\ last_call'.found = (id \in Ids(review_queue))
         /\ Len(review_queue') = Len(review_queue)
         /\ \A i \in 1..Len(review_queue) :
               IF review_queue[i].item_id = id
               THEN /\ review_queue'[i].reviewed
                    /\ review_queue'[i].reviewer_notes = last_call'.reviewer_notes
                    /\ review_queue'[i] =
                          [review_queue[i] EXCEPT
                              !.reviewed = TRUE,
                              !.reviewer_notes = last_call'.reviewer_notes]
               ELSE review_queue'[i] = review_queue[i]]_vars

\* An item that was already reviewed has been reviewed again, without notes,
\* and carries no notes now; another item is in the queue.
C24_Witness ==
    /\ last_call.op = "mark_reviewed" /\ last_call.found /\ last_call.again
    /\ last_call.reviewer_notes = NoNotes
    /\ \E i \in 1..Len(review_queue) :
          /\ review_queue[i].item_id = last_call.item_id
          /\ review_queue[i].reviewed
          /\ review_queue[i].reviewer_notes = NoNotes
    /\ Len(review_queue) >= 2

\* C26: clear_reviewed_items removes exactly the reviewed items, returns how
\* many it removed, and keeps the others unchanged in their order; a second
\* call right after the first removes nothing and returns 0.
PurgeStep ==
    /\ total_transcriptions_processed' = total_transcriptions_processed
    /\ last_call'.op = "clear_reviewed_items"

ReviewedIds(q) == {q[i].item_id : i \in {j \in 1..Len(q) : q[j].reviewed}}

PositionOf(q, id) == CHOOSE i \in 1..Len(q) : q[i].item_id = id

C26_PurgeReviewed ==
    [][PurgeStep =>
         /\ Ids(review_queue') = Ids(review_queue) \ ReviewedIds(review_queue)
         /\ Len(review_queue') = Cardinality(Ids(review_queue'))
         /\ last_call'.removed = Cardinality(ReviewedIds(review_queue))
         /\ \A i \in 1..Len(review_queue') :
               review_queue'[i] =
                   review_queue[PositionOf(review_queue, review_queue'[i].item_id)]
         /\ \A i, j \in 1..Len(review_queue') :
               i < j => PositionOf(review_queue, review_queue'[i].item_id)
                          < PositionOf(review_queue, review_queue'[j].item_id)
         /\ last_call.op = "clear_reviewed_items" =>
               last_call'.removed = 0 /\ review_queue' = review_queue]_vars

\* A purge has removed an item and left two in the queue.
C26_Witness ==
    /\ last_call.op = "clear_reviewed_items"
    /\ last_call.removed = 1
    /\ Len(review_queue) = 2
    /\ nitems = 3

\* A purge right after a purge that had removed something.
C26_WitnessAgain ==
    /\ last_call.op = "clear_reviewed_items" /\ last_call.again
    /\ last_call.removed = 0
    /\ nitems >= 2 /\ Len(review_queue) < nitems

\* C25: the lists that get_review_queue and get_unreviewed_items return are
\* independent of the queue: whatever their holder does with them or with an
\* item in them, the queue changes only when an event is processed.
C25_SnapshotsIndependent ==
    [][total_transcriptions_processed' = total_transcriptions_processed
         => review_queue' = review_queue]_vars

\* C28: the queue-size limit is soft. An event that the rules flag is
\* inserted whatever the length of the queue, every item that was in the queue
\* stays, and the warning is printed exactly when the queue is longer than
\* max_queue_size after the insertion.
EventStep == total_transcriptions_processed' = total_transcriptions_processed + 1

Flags(event) ==
    /\ ~Blank(event.text)
    /\ \/ event.confidence_score < confidence_threshold
       \/ auto_flag_medical_terms /\ found_terms(event.text) # {}

C28_SoftLimit ==
    [][EventStep =>
         IF Flags(last_event')
         THEN /\ Len(review_queue') = Len(review_queue) + 1
              /\ \A i \in 1..Len(review_queue) :
                    \E j \in 1..Len(review_queue') : review_queue'[j] = review_queue[i]
              /\ \E j \in 1..Len(review_queue') :
                    /\ review_queue'[j].item_id = nitems'
                    /\ review_queue'[j].transcription = last_event'
              /\ size_warning' = (Len(review_queue') > max_queue_size)
         ELSE review_queue' = review_queue /\ ~size_warning']_vars

\* An event was inserted into a queue that was already longer than its limit
\* of one or two items, nothing has left the queue, and the warning was printed.
C28_Witness ==
    /\ max_queue_size >= 1
    /\ Len(review_queue) >= max_queue_size + 2
    /\ Len(review_queue) = nitems
    /\ review_queue[Len(review_queue)].item_id = nitems
    /\ size_warning

\* C29: insertion is one step for the readers. Every list a getter returns
\* between handler runs and reviewer calls is sorted by priority, holds the
\* items of the queue (get_unreviewed_items: the unreviewed ones) in the
\* order of the queue, and so never shows a new item out of place.
PriorityOf(id) == review_queue'[PositionOf(review_queue', id)].priority

C29_ReadersSeeSorted ==
    [][snapshot' # snapshot =>
         /\ review_queue' = review_queue
         /\ \A i, j \in 1..Len(snapshot') :
               i < j => PriorityOf(snapshot'[i]) >= PriorityOf(snapshot'[j])
         /\ \/ snapshot' = References(review_queue)
            \/ snapshot' = References(SelectSeq(review_queue,
                                                LAMBDA item : ~item.reviewed))
         /\ \A i \in 1..Len(review_queue) :
               ~review_queue[i].reviewed => review_queue[i].item_id \in Range(snapshot')]_vars

\* A reader holds a list whose first entry is the item inserted last, ahead
\* of an older item of lower priority.
C29_Witness ==
    /\ Len(snapshot) >= 2
    /\ snapshot = References(review_queue)
    /\ snapshot[1] = nitems
    /\ review_queue[1].priority > review_queue[2].priority

\* C30: a threshold outside [0, 1] makes the constructor fail and leaves no
\* auditor, so no event is ever processed against such a threshold; the
\* thresholds 0 and 1 are accepted.
C30_ConfigFault ==
    /\ construction.fault <=> (construction.threshold < 0 \/ construction.threshold > 100)
    /\ IF construction.fault \/ ~construction.done
       THEN /\ total_transcriptions_processed = Unassigned
            /\ confidence_threshold = Unassigned
       ELSE /\ confidence_threshold = construction.threshold
            /\ total_transcriptions_processed > 0 =>
                  confidence_threshold >= 0 /\ confidence_threshold <= 100

\* The construction with the threshold 1.01 has failed.
C30_Witness ==
    /\ construction.done /\ construction.fault
    /\ construction.threshold = 101
    /\ review_queue = Unassigned

\* An auditor constructed with the threshold 1.0 has flagged an event.
C30_WitnessBound ==
    /\ construction.done /\ ~construction.fault
    /\ confidence_threshold = 100
    /\ total_transcriptions_processed > 0
    /\ Len(review_queue) > 0

\* C33: once an agent has been told that a session has ended, the pipeline
\* loop of that session hands it no further event.
C33_NoEventAfterEnd ==
    [][\A l \in Sessions, a \in Agents :
         (loops[l].pc = "transcribe" /\ loops'[l].pc = "join"
            /\ a \in loops'[l].pending)
         => agent_ended[a] # l]_vars

\* C34: the context handed to the agents with an event is that of the
\* session whose loop transcribed the event: never absent, never another
\* session's.
C34_ContextOfOwnSession ==
    \A l \in Sessions : loops[l].pc = "join" => loops[l].ctx = l

\* C35: a start() that raises after it has set the Active flag does not
\* leave the orchestrator Active: while the session of the failed call is
\* the current one, the flag is down.
C35_FailedStartNotActive ==
    \A l \in Sessions :
        (loops[l].pc = "start_fault" /\ current_session = l) => ~is_active

\* C36: in persist mode the buffer holds only events transcribed by the
\* loop of the most recently started session.
C36_BufferOfLatestSession ==
    operating_mode = DEV_MODE =>
        \A i \in 1..Len(transcription_buffer) : transcription_buffer[i].loop = nstarts

\* C37: session notifications are paired per agent: a stop() tells exactly
\* the agents that were told of the start of the session it ends.
C37_NotificationsPaired ==
    [][(is_active /\ ~is_active')
         => \A a \in Agents :
               a \in Range(agents) <=> agent_session[a] = current_session]_vars

\* C39: a stop() in which an agent's on_session_end raises still completes
\* the teardown: whenever the flag is down, the session, the audio source
\* and the transcriber are cleared.
C39_TeardownCompletes ==
    ~is_active =>
        /\ current_session = NoSession
        /\ audio_provider = NoProvider
        /\ ~transcriber

\* C38: a loop that leaves because its audio source is exhausted leaves the
\* session as it is: the orchestrator stays Active with its session, source
\* and transcriber, no agent is told anything, and no start() is accepted;
\* the flag goes down only in a step that clears the session and tells every
\* registered agent that it has ended, which is stop().
C38_ExhaustionKeepsActive ==
    [][/\ \A l \in Sessions :
            (is_active /\ loops[l].pc = "acquire" /\ loops'[l].pc = "done")
            => /\ is_active'
               /\ UNCHANGED <<current_session, audio_provider, transcriber,
                              agent_session, streaming>>
       /\ is_active => nstarts' = nstarts
       /\ (is_active /\ ~is_active')
            => /\ current_session' = NoSession
               /\ audio_provider' = NoProvider
               /\ ~transcriber'
               /\ \A a \in Range(agents) : agent_session'[a] = NoSession]_vars

\* The loop of the session has ended with the flag up all along, a start()
\* made since was rejected, and the session is still the current one.
C38_Witness ==
    /\ is_active /\ current_session = 1 /\ audio_provider = AudioSource
    /\ loops[1].pc = "done"
    /\ start_rejected
    /\ agents # <<>> /\ \A a \in Range(agents) : agent_session[a] = 1

\* C40: in every state of the auditor the flagged counter is at most the
\* processed counter, every item of the queue has a priority from 1 to 5 and
\* an identifier of its own; and the flagged counter counts the items inserted
\* since the last on_session_end: a step either resets both counters and
\* inserts nothing, or raises the flagged counter by the number of items it
\* inserts.
C40_CountersAndItems ==
    /\ [](/\ total_flagged <= total_transcriptions_processed
          /\ \A i \in 1..Len(review_queue) : review_queue[i].priority \in 1..5
          /\ \A i, j \in 1..Len(review_queue) :
                review_queue[i].item_id = review_queue[j].item_id => i = j)
    /\ [][\/ /\ total_flagged' = 0
             /\ total_transcriptions_processed' = 0
             /\ nitems' = nitems
          \/ total_flagged' - total_flagged = nitems' - nitems]_vars

\* After a session has ended with one item flagged, a second item was
\* flagged, with another priority: two items are queued, one is counted.
C40_Witness ==
    /\ nitems = 2 /\ Len(review_queue) = 2
    /\ total_flagged = 1
    /\ total_transcriptions_processed >= 1
    /\ review_queue[1].priority > review_queue[2].priority


\* ------------------------------------------------------------ simulation
\* What it is for a graph to carry the change a mutation describes.
HasAttributes(obj, parameters, id_key) ==
    \A k \in (DOMAIN parameters \ {id_key}) \cap DOMAIN obj : obj[k] = parameters[k]

Carries(graph, mutation) ==
    LET parameters == mutation.parameters
        Last(seq) == seq[Len(seq)]
    IN
    CASE mutation.mutation_type = "add_event" ->
           graph.events # <<>> /\ Last(graph.events) = parameters
      [] mutation.mutation_type = "remove_event" ->
           \A i \in 1..Len(graph.events) : graph.events[i].event_id # parameters.event_id
      [] mutation.mutation_type = "modify_event" ->
           \A i \in 1..Len(graph.events) :
               graph.events[i].event_id = parameters.event_id
                   => HasAttributes(graph.events[i], parameters, "event_id")
      [] mutation.mutation_type = "add_intervention" ->
           graph.interventions # <<>> /\ Last(graph.interventions) = parameters
      [] mutation.mutation_type = "remove_intervention" ->
           \A i \in 1..Len(graph.interventions) :
               graph.interventions[i].intervention_id # parameters.intervention_id
      [] mutation.mutation_type = "modify_intervention" ->
           \A i \in 1..Len(graph.interventions) :
               graph.interventions[i].intervention_id = parameters.intervention_id
                   => HasAttributes(graph.interventions[i], parameters, "intervention_id")
      [] mutation.mutation_type = "add_substance_use" ->
           /\ graph.substance_use_records # <<>>
           /\ Last(graph.substance_use_records) = parameters
      [] mutation.mutation_type = "modify_housing" ->
           graph.metadata.simulated_housing_status = parameters.status
      [] mutation.mutation_type = "modify_employment" ->
           graph.metadata.simulated_employment_status = parameters.status

\* C31: Mutation.apply never modifies the graph it is given, whatever the
\* mutation type: what it returns is another object that carries the
\* change, and no apply or simulate call changes the baseline graph of the
\* simulation context.
C31_ApplyReturnsChangedCopy ==
    /\ [](Len(modified_graph.mutations) = 1
            => /\ ~modified_graph.same_object
               /\ Carries(modified_graph.graph, modified_graph.mutations[1]))
    /\ [][baseline_graph' = baseline_graph]_vars

\* C32: whenever calculate_risk has been called on a valid patient graph,
\* the empty graph, a graph with an active intervention and a graph with
\* more than 180 days of sobriety included, it returned a report instead of
\* raising, and the risk score of the report lies between 0 and 1.
C32_RiskReportInRange ==
    risk_result.op = "calculate_risk"
        => ~risk_result.fault /\ risk_result.risk_score \in 0..100

====
